---- MODULE Spec2Model ----
(***************************************************************************)
(* Checkpoint-and-resume protocol of statesaver.py: the plain state        *)
(* container (Base/JState), the resumable iterator (Looper), its           *)
(* requeueing variant (PlayQueue) and the file position tracker (FilePos). *)
(*                                                                         *)
(* Files are sequences of tokens (a character, or the text of a key or of  *)
(* a string); "\n" is the line terminator.  Python values are records      *)
(* [ty, v].                                                                *)
(***************************************************************************)
EXTENDS Integers, Sequences, FiniteSets, TLC

\* ------------------------------------------------------------------ bounds
\* longest fresh sequence handed to an iterator
MaxLen == 2
\* number of iterator objects constructed one after the other on the path
MaxRuns == 2
\* number of lines of a wrapped file
MaxLines == 2
\* number of lines of a file handed to rewind
MaxRewindLines == 2

\* -------------------------------------------------------------- constants
\* rewind: backtrack += 100
BacktrackStep == 100

\* ------------------------------------------------------------ python values
PyInt(n) == [ty |-> "int", v |-> n]
PyStr(s) == [ty |-> "str", v |-> s]
\* a value json cannot encode (a set)
PySet == [ty |-> "set", v |-> 0]
\* the lazy map(load, read_cache) object stored under state['remaining']
PyMap == [ty |-> "map", v |-> 0]
PyNone == [ty |-> "none", v |-> 0]

NL == "\n"
DigitTok == <<"0", "1", "2", "3", "4", "5", "6", "7", "8", "9">>
DigitSet == {DigitTok[i] : i \in 1..10}
DigitVal(t) == (CHOOSE i \in 1..10 : DigitTok[i] = t) - 1

RECURSIVE Digits(_)
Digits(n) == IF n < 10 THEN <<DigitTok[n + 1]>>
             ELSE Digits(n \div 10) \o <<DigitTok[(n % 10) + 1]>>

RECURSIVE Number(_)
Number(t) == IF Len(t) = 1 THEN DigitVal(t[1])
             ELSE 10 * Number(SubSeq(t, 1, Len(t) - 1)) + DigitVal(t[Len(t)])

\* keys of the state dictionary, in the order they are written out
KeyOrder == <<"foo", "pop", "current", "pos", "remaining">>

Serializable(v) == v.ty \in {"int", "str"}

\* an encoder that writes every value as 0
JsonDumps_Zero(v) == <<"0">>

\* json.dumps of one value, compact separators
JsonDumps(v) == IF v.ty = "int" THEN Digits(v.v) ELSE <<"\"", v.v, "\"">>

DictSerializable(d) == \A k \in DOMAIN d : Serializable(d[k])

RECURSIVE DumpMembers(_, _, _)
DumpMembers(d, i, first) ==
    IF i > Len(KeyOrder) THEN <<>>
    ELSE IF KeyOrder[i] \in DOMAIN d
         THEN (IF first THEN <<>> ELSE <<",">>)
              \o <<"\"", KeyOrder[i], "\"", ":">> \o JsonDumps(d[KeyOrder[i]])
              \o DumpMembers(d, i + 1, FALSE)
         ELSE DumpMembers(d, i + 1, first)

\* an encoder that writes every dictionary as {}
JsonDumpsDict_Empty(d) == <<"{", "}">>

\* json.dumps / json.dump of the state dictionary
JsonDumpsDict(d) == <<"{">> \o DumpMembers(d, 1, TRUE) \o <<"}">>

\* json.dump with the default separators ', ' and ': ', written to the file
\* chunk by chunk: an unencodable value raises TypeError after the chunks
\* before it have been written
RECURSIVE DumpChunks(_, _, _)
DumpChunks(d, i, first) ==
    IF i > Len(KeyOrder) THEN [err |-> "", text |-> <<>>]
    ELSE IF KeyOrder[i] \in DOMAIN d
         THEN LET head == (IF first THEN <<>> ELSE <<",", " ">>)
                          \o <<"\"", KeyOrder[i], "\"", ":", " ">>
                  rest == DumpChunks(d, i + 1, FALSE)
              IN IF ~Serializable(d[KeyOrder[i]]) THEN [err |-> "TypeError", text |-> head]
                 ELSE [err |-> rest.err, text |-> head \o JsonDumps(d[KeyOrder[i]]) \o rest.text]
         ELSE DumpChunks(d, i + 1, first)

JsonDump(d) ==
    LET r == DumpChunks(d, 1, TRUE)
    IN [err |-> r.err, text |-> <<"{">> \o r.text \o (IF r.err = "" THEN <<"}">> ELSE <<>>)]

\* whitespace between the tokens is skipped by the decoder
IsNotSpace(x) == x # " "
SkipSpaces(t) == SelectSeq(t, IsNotSpace)

\* surrounding whitespace is skipped by the decoder
RECURSIVE Strip(_)
Strip(t) == IF t # <<>> /\ t[Len(t)] = NL THEN Strip(SubSeq(t, 1, Len(t) - 1)) ELSE t

IsNumberText(t) == /\ t # <<>>
                   /\ \A i \in 1..Len(t) : t[i] \in DigitSet
                   /\ (Len(t) > 1 => t[1] # "0")
IsStringText(t) == Len(t) = 3 /\ t[1] = "\"" /\ t[3] = "\"" /\ t[2] # "\""

DecodeError == [ok |-> FALSE, val |-> PyNone]

LoadScalar(t) == IF IsNumberText(t) THEN [ok |-> TRUE, val |-> PyInt(Number(t))]
                 ELSE IF IsStringText(t) THEN [ok |-> TRUE, val |-> PyStr(t[2])]
                 ELSE DecodeError

\* index of the first token x of t at or after i, 0 if there is none
RECURSIVE Find(_, _, _)
Find(t, x, i) == IF i > Len(t) THEN 0 ELSE IF t[i] = x THEN i ELSE Find(t, x, i + 1)

EmptyDict == [k \in {} |-> PyNone]

\* the members of an object: "key":value{,"key":value}
RECURSIVE LoadMembers(_)
LoadMembers(t) ==
    IF Len(t) < 5 \/ t[1] # "\"" \/ t[3] # "\"" \/ t[4] # ":" THEN [ok |-> FALSE, val |-> EmptyDict]
    ELSE LET c == Find(t, ",", 5)
             vt == IF c = 0 THEN SubSeq(t, 5, Len(t)) ELSE SubSeq(t, 5, c - 1)
             v == LoadScalar(vt)
         IN IF ~v.ok THEN [ok |-> FALSE, val |-> EmptyDict]
            ELSE IF c = 0 THEN [ok |-> TRUE, val |-> (t[2] :> v.val)]
            ELSE LET r == LoadMembers(SubSeq(t, c + 1, Len(t)))
                 IN IF ~r.ok THEN r
                    ELSE [ok |-> TRUE, val |-> (t[2] :> v.val) @@ r.val]

\* json.loads of a text that has to hold an object (the header line, a plain
\* checkpoint)
JsonLoadsDict(text) ==
    LET t == SkipSpaces(Strip(text))
    IN IF Len(t) < 2 \/ t[1] # "{" \/ t[Len(t)] # "}" THEN [ok |-> FALSE, val |-> EmptyDict]
       ELSE IF Len(t) = 2 THEN [ok |-> TRUE, val |-> EmptyDict]
       ELSE LoadMembers(SubSeq(t, 2, Len(t) - 1))

\* json.loads of one item line
JsonLoads(text) == LoadScalar(Strip(text))

\* print(*args, sep='\n', file=f): the arguments joined by sep, then end='\n'
RECURSIVE Join(_)
Join(args) == IF args = <<>> THEN <<>>
              ELSE IF Len(args) = 1 THEN args[1]
              ELSE args[1] \o <<NL>> \o Join(Tail(args))
PrintLines(args) == Join(args) \o <<NL>>

\* ------------------------------------------------------------ file objects
HasNL(t) == Find(t, NL, 1) # 0

\* A read handle: buf holds what was read ahead and not yet consumed, pos is
\* the file offset behind the read-ahead.
ClosedHandle == [open |-> FALSE, buf |-> <<>>, pos |-> 0]
OpenHandle == [open |-> TRUE, buf |-> <<>>, pos |-> 0]

\* The offsets a buffered readline may have read ahead to: nothing is read
\* while the buffer holds a whole line; otherwise one or more chunks are read
\* until a line terminator or the end of the file is in the buffer.  The size
\* of a chunk in items is not fixed by the code (io.DEFAULT_BUFFER_SIZE bytes),
\* so every offset is allowed.
RefillTo(h, data) ==
    IF HasNL(h.buf) \/ h.pos >= Len(data) THEN {h.pos}
    ELSE {p \in (h.pos + 1)..Len(data) :
              HasNL(SubSeq(data, h.pos + 1, p)) \/ p = Len(data)}

\* file.readline() with the read-ahead reaching offset p
ReadLine(h, data, p) ==
    LET avail == h.buf \o SubSeq(data, h.pos + 1, p)
        n == Find(avail, NL, 1)
    IN [line |-> IF n = 0 THEN avail ELSE SubSeq(avail, 1, n),
        handle |-> [h EXCEPT !.buf = IF n = 0 THEN <<>> ELSE SubSeq(avail, n + 1, Len(avail)),
                             !.pos = p]]

NoFile == [exists |-> FALSE, data |-> <<>>]

\* ------------------------------------------------------------- the iterator
\* self.iterable: items held in memory (a list iterator, the chained current
\* item) followed, when lazy, by map(load, read_cache)
EmptyIter == [mem |-> <<>>, lazy |-> FALSE]

\* next(self.iterable) with the read-ahead reaching p:
\* kind "item" | "stop" | "JSONDecodeError" | "ValueError"
IterNext(it, h, data, p) ==
    IF it.mem # <<>>
    THEN [kind |-> "item", val |-> Head(it.mem), it |-> [it EXCEPT !.mem = Tail(it.mem)], handle |-> h]
    ELSE IF ~it.lazy THEN [kind |-> "stop", val |-> PyNone, it |-> it, handle |-> h]
    ELSE IF ~h.open THEN [kind |-> "ValueError", val |-> PyNone, it |-> it, handle |-> h]
    ELSE LET r == ReadLine(h, data, p)
             v == JsonLoads(r.line)
         IN IF r.line = <<>> THEN [kind |-> "stop", val |-> PyNone, it |-> it, handle |-> r.handle]
            ELSE IF v.ok THEN [kind |-> "item", val |-> v.val, it |-> it, handle |-> r.handle]
            ELSE [kind |-> "JSONDecodeError", val |-> PyNone, it |-> it, handle |-> r.handle]

\* (dump(i) for i in self.iterable), unpacked by print(*...): every item is
\* pulled and encoded before anything is printed; the first exception ends it.
RECURSIVE Drain(_, _, _)
Drain(it, h, data) ==
    LET r == IterNext(it, h, data, CHOOSE p \in RefillTo(h, data) : TRUE)
    IN IF r.kind = "stop" THEN [err |-> "", texts |-> <<>>]
       ELSE IF r.kind # "item" THEN [err |-> r.kind, texts |-> <<>>]
       ELSE IF ~Serializable(r.val) THEN [err |-> "TypeError", texts |-> <<>>]
       ELSE LET rest == Drain(r.it, r.handle, data)
            IN [err |-> rest.err, texts |-> <<JsonDumps(r.val)>> \o rest.texts]

\* an assignment that never reaches the state dictionary
def_setattr_Forget(st, attr, val) == st

\* def_setattr: self.state[attr] = val
def_setattr(st, attr, val) == (attr :> val) @@ st

Without(d, k) == [x \in (DOMAIN d) \ {k} |-> d[x]]

\* Looper.safe_dump.  open('w') truncates the file before anything is read
\* from self.iterable; the header stays in the writer's buffer (it is far
\* smaller than the buffer) until the file is closed.
safe_dump(st, it, rc, h, d) ==
    LET h1 == IF rc # "None" THEN [h EXCEPT !.open = FALSE] ELSE h
        st1 == Without(st, "remaining")
        trunc == <<>>
        items == Drain(it, h1, trunc)
        header == PrintLines(<<JsonDumpsDict(st1)>>)
    IN IF ~DictSerializable(st1)
       THEN [err |-> "TypeError", disk |-> [exists |-> TRUE, data |-> trunc], handle |-> h1]
       ELSE IF items.err # ""
       THEN [err |-> items.err, disk |-> [exists |-> TRUE, data |-> header], handle |-> h1]
       ELSE [err |-> "", disk |-> [exists |-> TRUE, data |-> header \o PrintLines(items.texts)],
             handle |-> h1]

\* an exit that leaves the file in place when the iterable was drained
LooperExit_KeepFile(type, st, it, rc, h, d) ==
    IF type # "None" THEN safe_dump(st, it, rc, h, d)
    ELSE [err |-> "", disk |-> d, handle |-> h]

\* Looper.__exit__: persist when an exception type is given, erase otherwise
LooperExit(type, st, it, rc, h, d) ==
    IF type # "None" THEN safe_dump(st, it, rc, h, d)
    ELSE [err |-> "", disk |-> IF d.exists THEN NoFile ELSE d, handle |-> h]

\* an exit that pops the current item and does not put it back
PlayQueueExit_NoRequeue(type, st, it, rc, h, d) ==
    IF "current" \notin DOMAIN st
    THEN [err |-> "KeyError", disk |-> d, handle |-> h]
    ELSE LooperExit(type, Without(st, "current"), it, rc, h, d)

\* PlayQueue.__exit__: the popped current item is chained in front of the
\* iterable, then Looper.__exit__; pop raises KeyError when no item was stored.
\* The class statement names its base statesaver.Looper; the base is taken to
\* be the Looper class of the module.
PlayQueueExit(type, st, it, rc, h, d) ==
    IF "current" \notin DOMAIN st
    THEN [err |-> "KeyError", disk |-> d, handle |-> h]
    ELSE LooperExit(type, Without(st, "current"),
                    [it EXCEPT !.mem = <<st["current"]>> \o it.mem], rc, h, d)

Exit(c, type, st, it, rc, h, d) ==
    IF c = "PlayQueue" THEN PlayQueueExit(type, st, it, rc, h, d)
    ELSE LooperExit(type, st, it, rc, h, d)

\* ---------------------------------------------------------------- the state
VARIABLES
    S,          \* the fresh sequence the caller has
    cls,        \* the class the caller uses: "Looper", "PlayQueue", "JState"
                \* or "FilePos"
    disk,       \* the file at cache_path: [exists, data]
    pc,         \* "none": no live object; "ready": constructed, generator not
                \* started; "yielded": generator suspended at its yield;
                \* "open": inside the scope of a store; "JSONDecodeError":
                \* the store could not be built; "tracking": a tracker is
                \* in use; "ended": its scope was left
    state,      \* self.state
    iterable,   \* self.iterable
    read_cache, \* the attribute self.read_cache: "None" or "file"
    handle,     \* the file object opened by prep_state
    args,       \* how the live object was constructed
    got,        \* the items the consumer has received from the live object
    runs,       \* number of objects constructed so far
    last,       \* the object that went last: how it was built, what it
                \* yielded, how it ended, the file before its teardown
    chain,      \* every object so far resumed the one before it
    done,       \* the items the consumer has finished with along the chain
    \* the plain store (Base/JState)
    erase,      \* the instance field self.erase
    assigned,   \* what the caller has assigned on the live store: name -> value
    closed,     \* the last scope exit: the exception value, self.erase, the
                \* file before it, whether close() ran, what had been assigned
    \* the position tracker (FilePos)
    wrapped,    \* the content of the wrapped file
    file,       \* the wrapped file object, a read handle
    mode,       \* how the caller uses the tracker: "for" or "with"
    start,      \* the offset the live tracker was at when construction ended
    stop,       \* how the last tracker's scope ended and the offset the
                \* consumer had read to
    \* rewind(file)
    rw          \* the call of rewind: its file (text, offset at) and its
                \* locals pos, backtrack, lines, newpos; pc is its position

loopVars == <<S, cls, iterable, read_cache, handle, args, got, runs, last, chain, done>>
storeVars == <<erase, assigned, closed>>
fileVars == <<wrapped, file, mode, start, stop>>
rewindVars == <<rw>>
vars == <<disk, pc, state, loopVars, storeVars, fileVars, rewindVars>>

Items == {PyInt(1), PyInt(10), PySet}

PyBool(b) == [ty |-> "bool", v |-> IF b THEN 1 ELSE 0]
NoExit == [value |-> "", erase |-> PyBool(FALSE), before |-> NoFile, saved |-> FALSE,
           assigned |-> EmptyDict]
NoStop == [how |-> "", pos |-> 0, err |-> ""]
NoRewind == [pc |-> "none", text |-> <<>>, at |-> 0, pos |-> 0, backtrack |-> 0,
             lines |-> <<>>, newpos |-> 0]

StoreIdle == erase = PyBool(FALSE) /\ assigned = EmptyDict /\ closed = NoExit
FileIdle == wrapped = <<>> /\ file = ClosedHandle /\ mode = "" /\ start = 0 /\ stop = NoStop
RewindIdle == rw = NoRewind
LoopIdle ==
    /\ S = <<>> /\ iterable = EmptyIter /\ read_cache = "None"
    /\ handle = ClosedHandle /\ got = <<>> /\ runs = 0 /\ chain = TRUE /\ done = <<>>

NoArgs == [fresh |-> FALSE, cache_first |-> FALSE, had |-> FALSE]
NoRun == [fresh |-> FALSE, cache_first |-> FALSE, had |-> FALSE, got |-> <<>>,
          end |-> "", err |-> "", before |-> NoFile, aux |-> EmptyDict, after |-> ""]

Init ==
    /\ S \in UNION {[1..n -> Items] : n \in 0..MaxLen}
    /\ cls \in {"Looper", "PlayQueue"}
    /\ disk = NoFile
    /\ pc = "none"
    /\ state = EmptyDict
    /\ iterable = EmptyIter
    /\ read_cache = "None"
    /\ handle = ClosedHandle
    /\ args = NoArgs
    /\ got = <<>>
    /\ runs = 0
    /\ last = NoRun
    /\ chain = TRUE
    /\ done = <<>>
    /\ StoreIdle
    /\ FileIdle
    /\ RewindIdle

\* the items the consumer has finished with when a run ends: PlayQueue's
\* consumer still held the last one when it was interrupted
Finished(end) ==
    IF end = "interrupted" /\ cls = "PlayQueue" /\ got # <<>>
    THEN SubSeq(got, 1, Len(got) - 1) ELSE got

\* the object is gone: its fields no longer matter
Finish(end, err, before) ==
    /\ pc' = "none"
    /\ state' = EmptyDict
    /\ iterable' = EmptyIter
    /\ read_cache' = "None"
    /\ args' = NoArgs
    /\ got' = <<>>
    /\ last' = [fresh |-> args.fresh, cache_first |-> args.cache_first, had |-> args.had,
                got |-> got, end |-> end, err |-> err, before |-> before,
                aux |-> Without(Without(state, "remaining"), "current"), after |-> last.end]
    /\ done' = IF chain THEN done \o Finished(end) ELSE <<>>
    /\ UNCHANGED <<runs, chain>>

\* Looper.prep_state with the header's readline reading ahead to p
prep_state(d, p) ==
    IF d.exists
    THEN LET r == ReadLine(OpenHandle, d.data, p)
             hd == JsonLoadsDict(r.line)
         IN [err |-> IF hd.ok THEN "" ELSE "JSONDecodeError",
             state |-> hd.val @@ ("remaining" :> PyMap),
             read_cache |-> "file", handle |-> r.handle]
    ELSE [err |-> "", state |-> EmptyDict, read_cache |-> "None", handle |-> ClosedHandle]

\* a choice that takes the fresh iterable whenever one is given
ChooseIterable_FreshFirst(st, fresh, cache_first) ==
    IF fresh THEN [err |-> "", it |-> [mem |-> S, lazy |-> FALSE]]
    ELSE IF "remaining" \in DOMAIN st THEN [err |-> "", it |-> [mem |-> <<>>, lazy |-> TRUE]]
    ELSE [err |-> "KeyError", it |-> EmptyIter]

\* the choice of self.iterable in Looper.__init__: iter(None) raises
\* TypeError, a missing state['remaining'] raises KeyError
ChooseIterable(st, fresh, cache_first) ==
    IF cache_first
    THEN IF "remaining" \in DOMAIN st THEN [err |-> "", it |-> [mem |-> <<>>, lazy |-> TRUE]]
         ELSE IF fresh THEN [err |-> "", it |-> [mem |-> S, lazy |-> FALSE]]
         ELSE [err |-> "TypeError", it |-> EmptyIter]
    ELSE IF fresh THEN [err |-> "", it |-> [mem |-> S, lazy |-> FALSE]]
         ELSE IF "remaining" \in DOMAIN st THEN [err |-> "", it |-> [mem |-> <<>>, lazy |-> TRUE]]
         ELSE [err |-> "KeyError", it |-> EmptyIter]

\* the chain goes on while the caller hands every object the fresh sequence,
\* as tests.py does, and every object after the first is built with
\* cache_first on a path whose last object was left before it was exhausted
Chained(fresh, cache_first) ==
    /\ chain
    /\ fresh
    /\ runs > 0 => cache_first /\ last.end \in {"interrupted", "abandoned"}

\* Looper(cache_path, iterable, cache_first), safe=True: prep_state runs inside
\* Base.__init__, then read_cache is set to None, then the iterable is chosen
Construct(fresh, cache_first) ==
    /\ pc = "none"
    /\ runs < MaxRuns
    /\ runs' = runs + 1
    /\ chain' = Chained(fresh, cache_first)
    /\ \E p \in RefillTo(OpenHandle, disk.data) :
         LET ps == prep_state(disk, p)
             ch == ChooseIterable(ps.state, fresh, cache_first)
             a == [fresh |-> fresh, cache_first |-> cache_first, had |-> disk.exists]
         IN /\ handle' = ps.handle
            /\ IF ps.err # "" \/ ch.err # ""
               THEN /\ pc' = "none"
                    /\ state' = EmptyDict
                    /\ iterable' = EmptyIter
                    /\ read_cache' = "None"
                    /\ args' = NoArgs
                    /\ last' = [fresh |-> fresh, cache_first |-> cache_first,
                                had |-> disk.exists, got |-> <<>>, end |-> "ctor",
                                err |-> IF ps.err # "" THEN ps.err ELSE ch.err,
                                before |-> disk, aux |-> EmptyDict, after |-> last.end]
               ELSE /\ pc' = "ready"
                    /\ state' = ps.state
                    /\ iterable' = ch.it
                    /\ read_cache' = "None"
                    /\ args' = a
                    /\ last' = last
    /\ done' = IF chain' THEN done ELSE <<>>
    /\ UNCHANGED <<S, cls, disk, got, storeVars, fileVars, rewindVars>>

\* the consumer asks for the next item: the generator starts or resumes
NextItem ==
    /\ pc \in {"ready", "yielded"}
    /\ \E p \in RefillTo(handle, disk.data) :
         LET r == IterNext(iterable, handle, disk.data, p)
         IN IF r.kind = "item"
            THEN /\ state' = IF cls = "PlayQueue" THEN def_setattr(state, "current", r.val)
                                 ELSE state
                 /\ iterable' = r.it
                 /\ handle' = r.handle
                 /\ got' = Append(got, r.val)
                 /\ pc' = "yielded"
                 /\ UNCHANGED <<disk, read_cache, args, runs, last, chain, done>>
            ELSE LET type == IF r.kind = "stop" THEN "None" ELSE r.kind
                     x == Exit(cls, type, state, r.it, read_cache, r.handle, disk)
                 IN /\ disk' = x.disk
                    /\ handle' = [x.handle EXCEPT !.buf = <<>>, !.pos = 0]
                    /\ Finish(IF r.kind = "stop" THEN "exhausted" ELSE "raised",
                              IF x.err # "" THEN x.err ELSE IF r.kind = "stop" THEN "" ELSE r.kind,
                              disk)
    /\ UNCHANGED <<S, cls, storeVars, fileVars, rewindVars>>

\* the consumer leaves the loop while it holds an item (break, or an exception
\* in the loop body): the suspended generator is finalised, GeneratorExit is
\* raised at the yield and the with block exits with it
Break ==
    /\ pc = "yielded"
    /\ LET x == Exit(cls, "GeneratorExit", state, iterable, read_cache, handle, disk)
       IN /\ disk' = x.disk
          /\ handle' = [x.handle EXCEPT !.buf = <<>>, !.pos = 0]
          /\ Finish("interrupted", x.err, disk)
    /\ UNCHANGED <<S, cls, storeVars, fileVars, rewindVars>>

\* the consumer drops the object before asking for an item: the generator
\* body never ran, so no with block exits
Abandon ==
    /\ pc = "ready"
    /\ handle' = [handle EXCEPT !.buf = <<>>, !.pos = 0]
    /\ Finish("abandoned", "", disk)
    /\ UNCHANGED <<S, cls, disk, storeVars, fileVars, rewindVars>>

\* obj.foo = "bar": def_setattr stores a name that is no instance field in
\* self.state
SetAttr(attr, val) ==
    /\ pc \in {"ready", "yielded"}
    /\ state' = def_setattr(state, attr, val)
    /\ UNCHANGED <<disk, pc, loopVars, storeVars, fileVars, rewindVars>>

Next ==
    \/ \E f \in BOOLEAN, c \in BOOLEAN : Construct(f, c)
    \/ NextItem
    \/ Break
    \/ Abandon
    \/ SetAttr("foo", PyStr("bar"))

Spec == Init /\ [][Next]_vars

\* the caller uses one class on the path
InitLooper == Init /\ cls = "Looper"
InitPlayQueue == Init /\ cls = "PlayQueue"
SpecLooper == InitLooper /\ [][Next]_vars
SpecPlayQueue == InitPlayQueue /\ [][Next]_vars

\* ------------------------------------------------- the unsafe strategy
\* Looper(..., safe=False): the state is pickled with the iterator itself
\* under 'remaining'.  An iterator over a list (or a range) can be pickled
\* and comes back as an iterator over the items it had not yet produced; a
\* generator cannot.
\* pickle.dump(self.state, cache): one blob, nothing written on TypeError
PickleDump(st) ==
    IF "remaining" \in DOMAIN st /\ st["remaining"].ty = "generator"
    THEN [err |-> "TypeError", data |-> <<>>]
    ELSE [err |-> "",
          data |-> <<[protocol |-> "pickle",
                      keys |-> DOMAIN st,
                      values |-> [k \in DOMAIN st |-> st[k]]]>>]

\* pickle.load(c)
PickleLoad(data) ==
    IF data = <<>> THEN [err |-> "EOFError", state |-> EmptyDict]
    ELSE [err |-> "", state |-> [k \in data[1].keys |-> data[1].values[k]]]

\* Looper.prep_state with safe=False
unsafe_prep_state(d) ==
    IF d.exists THEN PickleLoad(d.data) ELSE [err |-> "", state |-> EmptyDict]

\* the fresh iterable as the object iter(iterable) returns
FreshIterator(generator) ==
    [mem |-> S, lazy |-> FALSE, ty |-> IF generator THEN "generator" ELSE "iterator"]

\* the choice of self.iterable with cache_first=True
UnsafeChooseIterable(st, fresh, generator) ==
    IF "remaining" \in DOMAIN st
    THEN [err |-> "", it |-> [mem |-> st["remaining"].v, lazy |-> FALSE, ty |-> "iterator"]]
    ELSE IF fresh THEN [err |-> "", it |-> FreshIterator(generator)]
    ELSE [err |-> "TypeError", it |-> EmptyIter]

\* Looper.unsafe_dump: the file is opened with 'wb', which empties it;
\* self.state['remaining'] = self.iterable; pickle.dump
unsafe_dump(st, it) ==
    LET st1 == ("remaining" :> [ty |-> it.ty, v |-> it.mem]) @@ st
    IN [err |-> PickleDump(st1).err,
        disk |-> [exists |-> TRUE, data |-> PickleDump(st1).data]]

\* Looper.__exit__ with safe=False
UnsafeExit(type, st, it, d) ==
    IF type # "None" THEN unsafe_dump(st, it)
    ELSE [err |-> "", disk |-> IF d.exists THEN NoFile ELSE d]

InitUnsafe == Init /\ cls = "Looper"

\* Looper(cache_path, iterable, safe=False), cache_first=True; the fresh
\* iterable, when given, is the list S or a generator producing S
UnsafeConstruct(fresh, generator) ==
    /\ pc = "none"
    /\ runs < MaxRuns
    /\ runs' = runs + 1
    /\ LET ps == unsafe_prep_state(disk)
           ch == UnsafeChooseIterable(ps.state, fresh, generator)
           failed == ps.err # "" \/ ch.err # ""
       IN /\ chain' = (chain /\ ~failed /\ (runs > 0 => last.end = "interrupted"))
          /\ IF failed
             THEN /\ pc' = "none"
                  /\ state' = EmptyDict
                  /\ iterable' = EmptyIter
                  /\ args' = NoArgs
                  /\ last' = [fresh |-> fresh, cache_first |-> TRUE,
                              had |-> disk.exists, got |-> <<>>, end |-> "ctor",
                              err |-> IF ps.err # "" THEN ps.err ELSE ch.err,
                              before |-> disk, aux |-> EmptyDict, after |-> last.end]
             ELSE /\ pc' = "ready"
                  /\ state' = ps.state
                  /\ iterable' = ch.it
                  /\ args' = [fresh |-> fresh, cache_first |-> TRUE, had |-> disk.exists]
                  /\ last' = last
    /\ done' = IF chain' THEN done ELSE <<>>
    /\ UNCHANGED <<S, cls, disk, read_cache, handle, got, storeVars, fileVars, rewindVars>>

\* the consumer asks for the next item
UnsafeNextItem ==
    /\ pc \in {"ready", "yielded"}
    /\ LET r == IterNext(iterable, handle, disk.data, 0)
       IN IF r.kind = "item"
          THEN /\ iterable' = r.it
               /\ got' = Append(got, r.val)
               /\ pc' = "yielded"
               /\ UNCHANGED <<disk, state, read_cache, args, runs, last, chain, done>>
          ELSE /\ disk' = UnsafeExit("None", state, r.it, disk).disk
               /\ Finish("exhausted", "", disk)
    /\ UNCHANGED <<S, cls, handle, storeVars, fileVars, rewindVars>>

\* the consumer leaves the loop while it holds an item
UnsafeBreak ==
    /\ pc = "yielded"
    /\ disk' = UnsafeExit("GeneratorExit", state, iterable, disk).disk
    /\ Finish("interrupted", UnsafeExit("GeneratorExit", state, iterable, disk).err, disk)
    /\ UNCHANGED <<S, cls, handle, storeVars, fileVars, rewindVars>>

NextUnsafe ==
    \/ \E fresh \in BOOLEAN, generator \in BOOLEAN : UnsafeConstruct(fresh, generator)
    \/ UnsafeNextItem
    \/ UnsafeBreak
    \/ SetAttr("foo", PyStr("bar"))

SpecUnsafe == InitUnsafe /\ [][NextUnsafe]_vars

\* ------------------------------------------------ the plain store (JState)
\* names the caller may assign and read on a store: "foo" is free, "erase"
\* is an instance field set by __init__ (as are cache_path, load_kwargs,
\* dump_kwargs and state), "pop" is a method of the class
AttrNames == {"foo", "erase", "pop"}
StoreValues == {PyStr("bar"), PyInt(0), PySet}
PyMethod(name) == [ty |-> "method", v |-> name]
PyKeyError == [ty |-> "KeyError", v |-> 0]

Truthy(v) == ~(v.ty \in {"int", "bool"} /\ v.v = 0) /\ v.ty # "none"

\* Base.prep_state: json.load of the whole file, {} when there is none
base_prep_state(d) ==
    IF d.exists THEN JsonLoadsDict(d.data) ELSE [ok |-> TRUE, val |-> EmptyDict]

\* Base.close: the file is opened for writing, which empties it, and
\* json.dump writes self.state into it
close(st) == [err |-> JsonDump(st).err,
              disk |-> [exists |-> TRUE, data |-> JsonDump(st).text]]

\* Base.__exit__: the file is removed when no exception came, erase is set
\* and the file exists; in every other case close() writes the state
base_exit(value, er, st, d) ==
    IF value = "None" /\ Truthy(er) /\ d.exists THEN [err |-> "", disk |-> NoFile]
    ELSE close(st)

\* the __setattr__ Holder installs once __init__ has run: a name in the
\* instance __dict__ is set on the object, any other goes to def_setattr
HolderSetattr(er, st, attr, val) ==
    IF attr = "erase" THEN [erase |-> val, state |-> st]
    ELSE [erase |-> er, state |-> def_setattr(st, attr, val)]

\* obj.attr: the instance __dict__, then the class, then Base.__getattr__,
\* which raises KeyError for a key self.state does not hold
Getattr(er, st, attr) ==
    IF attr = "erase" THEN er
    ELSE IF attr = "pop" THEN PyMethod("pop")
    ELSE IF attr \in DOMAIN st THEN st[attr]
    ELSE PyKeyError

InitStore ==
    /\ disk = NoFile
    /\ pc = "none"
    /\ state = EmptyDict
    /\ StoreIdle
    /\ cls = "JState"
    /\ LoopIdle /\ args = NoArgs /\ last = NoRun
    /\ FileIdle
    /\ RewindIdle

\* JState(cache_path, erase), entered as a context manager
JStateInit(er) ==
    /\ pc \in {"none", "JSONDecodeError"}
    /\ state' = base_prep_state(disk).val
    /\ erase' = IF base_prep_state(disk).ok THEN PyBool(er) ELSE PyBool(FALSE)
    /\ assigned' = EmptyDict
    /\ pc' = IF base_prep_state(disk).ok THEN "open" ELSE "JSONDecodeError"
    /\ UNCHANGED <<disk, closed, loopVars, fileVars, rewindVars>>

\* store.attr = val inside the scope
StoreSetAttr(attr, val) ==
    /\ pc = "open"
    /\ LET r == HolderSetattr(erase, state, attr, val)
       IN erase' = r.erase /\ state' = r.state
    /\ assigned' = (attr :> val) @@ assigned
    /\ UNCHANGED <<disk, pc, closed, loopVars, fileVars, rewindVars>>

\* the with block ends, with an exception value or without
StoreExit(value) ==
    /\ pc = "open"
    /\ disk' = base_exit(value, erase, state, disk).disk
    /\ closed' = [value |-> value, erase |-> erase, before |-> disk,
                  saved |-> /\ ~(value = "None" /\ Truthy(erase) /\ disk.exists)
                            /\ base_exit(value, erase, state, disk).err = "",
                  assigned |-> assigned]
    /\ pc' = "none"
    /\ state' = EmptyDict
    /\ erase' = PyBool(FALSE)
    /\ assigned' = EmptyDict
    /\ UNCHANGED <<loopVars, fileVars, rewindVars>>

NextStore ==
    \/ \E er \in BOOLEAN : JStateInit(er)
    \/ \E a \in AttrNames, v \in StoreValues : StoreSetAttr(a, v)
    \/ \E value \in {"None", "Error"} : StoreExit(value)

SpecStore == InitStore /\ [][NextStore]_vars

\* ------------------------------------------- the file position tracker
\* the lines a wrapped file is made of
LineSet == {<<"a", NL>>, <<"b", "b", NL>>}
RECURSIVE Concat(_)
Concat(ls) == IF ls = <<>> THEN <<>> ELSE Head(ls) \o Concat(Tail(ls))
FileTexts == {Concat(ls) : ls \in UNION {[1..n -> LineSet] : n \in 0..MaxLines}}

\* file.tell(): the offset behind the last line handed out
Tell(h) == h.pos - Len(h.buf)
\* file.seek(pos)
Seek(pos) == [open |-> TRUE, buf |-> <<>>, pos |-> pos]

\* self.state.get('pos', 0)
GetPos(st) == IF "pos" \in DOMAIN st THEN st["pos"].v ELSE 0

InitFile ==
    /\ disk = NoFile
    /\ pc = "none"
    /\ state = EmptyDict
    /\ cls = "FilePos"
    /\ LoopIdle /\ args = NoArgs /\ last = NoRun
    /\ StoreIdle
    /\ RewindIdle
    /\ wrapped \in FileTexts
    /\ file = ClosedHandle /\ mode = "" /\ start = 0 /\ stop = NoStop

\* FilePos(cache_path, file) over a newly opened file object; m tells how the
\* caller goes on: "for" iterates the tracker, "with" enters it as a context
\* manager and reads through the forwarded file methods
FilePosInit(m) ==
    /\ pc \in {"none", "ended"}
    /\ base_prep_state(disk).ok
    /\ state' = base_prep_state(disk).val
    /\ file' = Seek(GetPos(base_prep_state(disk).val))
    /\ start' = GetPos(base_prep_state(disk).val)
    /\ mode' = m
    /\ pc' = "tracking"
    /\ UNCHANGED <<disk, wrapped, stop, loopVars, storeVars, rewindVars>>

\* next() on the generator of __iter__: yield from self.file hands out the
\* next line; at the end of the file the with block is left without an
\* exception and __exit__ does nothing
FileNext ==
    /\ pc = "tracking" /\ mode = "for"
    /\ \E p \in RefillTo(file, wrapped) :
         LET r == ReadLine(file, wrapped, p)
         IN /\ file' = r.handle
            /\ IF r.line = <<>>
               THEN /\ pc' = "ended"
                    /\ stop' = [how |-> "exhausted", pos |-> Tell(r.handle), err |-> ""]
               ELSE UNCHANGED <<pc, stop>>
    /\ UNCHANGED <<disk, state, wrapped, mode, start, loopVars, storeVars, rewindVars>>

\* the consumer leaves the loop: GeneratorExit is thrown into the generator
\* suspended in yield from, which first closes the file it delegates to;
\* __exit__ then calls tell() on the closed file, which raises ValueError
\* before state['pos'] is assigned
FileBreak ==
    /\ pc = "tracking" /\ mode = "for"
    /\ Tell(file) > start
    /\ file' = [file EXCEPT !.open = FALSE]
    /\ stop' = [how |-> "interrupted", pos |-> Tell(file), err |-> "ValueError"]
    /\ pc' = "ended"
    /\ UNCHANGED <<disk, state, wrapped, mode, start, loopVars, storeVars, rewindVars>>

\* tracker.readline() inside a with block, forwarded by __getattr__
FileReadline ==
    /\ pc = "tracking" /\ mode = "with"
    /\ \E p \in RefillTo(file, wrapped) : file' = ReadLine(file, wrapped, p).handle
    /\ UNCHANGED <<disk, pc, state, wrapped, mode, start, stop, loopVars, storeVars, rewindVars>>

\* the offsets a buffered read(1) may have read ahead to
ReadAheadTo(h, data) ==
    IF h.buf # <<>> \/ h.pos >= Len(data) THEN {h.pos} ELSE (h.pos + 1)..Len(data)

\* file.read(1) with the read-ahead reaching offset p
ReadChar(h, data, p) ==
    LET avail == h.buf \o SubSeq(data, h.pos + 1, p)
    IN [h EXCEPT !.buf = IF avail = <<>> THEN <<>> ELSE Tail(avail), !.pos = p]

\* tracker.read(1) inside a with block, forwarded by __getattr__
FileReadChar ==
    /\ pc = "tracking" /\ mode = "with"
    /\ \E p \in ReadAheadTo(file, wrapped) : file' = ReadChar(file, wrapped, p)
    /\ UNCHANGED <<disk, pc, state, wrapped, mode, start, stop, loopVars, storeVars, rewindVars>>

\* FilePos.__exit__ at the end of a with block: with an exception
\* state['pos'] = tell() and the file is closed; nothing is written
FilePosExit(type) ==
    /\ pc = "tracking" /\ mode = "with"
    /\ IF type # "None"
       THEN /\ state' = ("pos" :> PyInt(Tell(file))) @@ state
            /\ file' = [file EXCEPT !.open = FALSE]
            /\ stop' = [how |-> "interrupted", pos |-> Tell(file), err |-> ""]
       ELSE /\ stop' = [how |-> "completed", pos |-> Tell(file), err |-> ""]
            /\ UNCHANGED <<state, file>>
    /\ pc' = "ended"
    /\ UNCHANGED <<disk, wrapped, mode, start, loopVars, storeVars, rewindVars>>

\* tracker.close() called by hand after the scope: Base.close
FileClose ==
    /\ pc = "ended"
    /\ disk' = close(state).disk
    /\ pc' = "none"
    /\ UNCHANGED <<state, fileVars, loopVars, storeVars, rewindVars>>

NextFile ==
    \/ \E m \in {"for", "with"} : FilePosInit(m)
    \/ FileNext
    \/ FileBreak
    \/ FileReadline
    \/ FileReadChar
    \/ \E type \in {"None", "Error"} : FilePosExit(type)
    \/ FileClose

SpecFile == InitFile /\ [][NextFile]_vars

\* ------------------------------------------------------------- rewind(file)
\* the lines a rewound file is made of: an empty line, a short line and a
\* line longer than one backtrack step
LongLine == [i \in 1..(BacktrackStep + 20) |-> "b"] \o <<NL>>
RewindLineSet == {<<NL>>, <<"a", NL>>, LongLine}
RewindTexts == {Concat(ls) : ls \in UNION {[1..n -> RewindLineSet] : n \in 0..MaxRewindLines}}

\* s.splitlines(): the lines without their terminators; an unterminated rest
\* is a line, a terminated last line adds no empty one
RECURSIVE SplitLines(_)
SplitLines(t) ==
    LET ends == {i \in 1..Len(t) : t[i] = NL}
        n == CHOOSE i \in ends : \A j \in ends : i <= j
    IN IF t = <<>> THEN <<>>
       ELSE IF ends = {} THEN <<t>>
       ELSE <<SubSeq(t, 1, n - 1)>> \o SplitLines(SubSeq(t, n + 1, Len(t)))

\* file.read(n) at offset at: [data, at]
FileRead(text, at, n) ==
    LET to == IF at + n > Len(text) THEN Len(text) ELSE at + n
    IN [data |-> SubSeq(text, at + 1, to), at |-> IF to > at THEN to ELSE at]

\* the file is at any offset of any text when rewind is called
InitRewind ==
    /\ disk = NoFile
    /\ pc = "none"
    /\ state = EmptyDict
    /\ cls = "rewind"
    /\ LoopIdle /\ args = NoArgs /\ last = NoRun
    /\ StoreIdle
    /\ FileIdle
    /\ \E text \in RewindTexts :
         \E at \in 0..Len(text) : rw = [NoRewind EXCEPT !.text = text, !.at = at]

\* pos = file.tell(); backtrack = 0; lines = ()
RewindCall ==
    /\ rw.pc = "none"
    /\ rw' = [rw EXCEPT !.pc = "while", !.pos = rw.at, !.backtrack = 0, !.lines = <<>>]
    /\ UNCHANGED <<disk, pc, state, loopVars, storeVars, fileVars>>

\* while len(lines) < 2: backtrack += 100; byteno = pos - backtrack, clamped
\* to 0 with backtrack = pos; file.seek(byteno)
RewindSeek ==
    /\ rw.pc = "while"
    /\ Len(rw.lines) < 2
    /\ LET bt == rw.backtrack + BacktrackStep
           clamped == rw.pos - bt < 0
       IN rw' = [rw EXCEPT !.pc = "read",
                           !.backtrack = IF clamped THEN rw.pos ELSE bt,
                           !.at = IF clamped THEN 0 ELSE rw.pos - bt]
    /\ UNCHANGED <<disk, pc, state, loopVars, storeVars, fileVars>>

\* lines = file.read(backtrack).splitlines(), and back to the loop test
RewindRead ==
    /\ rw.pc = "read"
    /\ rw' = [rw EXCEPT !.pc = "while",
                        !.lines = SplitLines(FileRead(rw.text, rw.at, rw.backtrack).data),
                        !.at = FileRead(rw.text, rw.at, rw.backtrack).at]
    /\ UNCHANGED <<disk, pc, state, loopVars, storeVars, fileVars>>

\* the loop is left: newpos = pos - len(lines[-1]) - 1; file.seek(newpos);
\* return newpos
RewindReturn ==
    /\ rw.pc = "while"
    /\ Len(rw.lines) >= 2
    /\ LET newpos == rw.pos - Len(rw.lines[Len(rw.lines)]) - 1
       IN rw' = [rw EXCEPT !.pc = "done", !.newpos = newpos, !.at = newpos]
    /\ UNCHANGED <<disk, pc, state, loopVars, storeVars, fileVars>>

NextRewind ==
    \/ RewindCall
    \/ RewindSeek
    \/ RewindRead
    \/ RewindReturn

SpecRewind == InitRewind /\ [][NextRewind]_vars
\* the interpreter keeps executing the loop
SpecRewindFair == SpecRewind /\ WF_vars(NextRewind)

\* ------------------------------------------------- reading a checkpoint file
SerializableSeq(s) == \A i \in 1..Len(s) : Serializable(s[i])
Drop(s, k) == SubSeq(s, k + 1, Len(s))
IsPrefix(a, b) == Len(a) <= Len(b) /\ SubSeq(b, 1, Len(a)) = a

\* the lines of a file, terminators removed; an unterminated rest is a line
RECURSIVE LinesOf(_)
LinesOf(data) ==
    IF data = <<>> THEN <<>>
    ELSE LET n == Find(data, NL, 1)
         IN IF n = 0 THEN <<data>>
            ELSE <<SubSeq(data, 1, n - 1)>> \o LinesOf(Drop(data, n))

\* the text behind the first line
BodyOf(data) == LET n == Find(data, NL, 1) IN IF n = 0 THEN <<>> ELSE Drop(data, n)

ItemLines(data) == LinesOf(BodyOf(data))

\* a safe checkpoint: a header line, then one decodable line per item
ValidSafe(data) ==
    /\ HasNL(data)
    /\ JsonLoadsDict(LinesOf(data)[1]).ok
    /\ data[Len(data)] = NL
    /\ \A i \in 1..Len(ItemLines(data)) : JsonLoads(ItemLines(data)[i]).ok

ItemsOf(data) == [i \in 1..Len(ItemLines(data)) |-> JsonLoads(ItemLines(data)[i]).val]

\* the text the live object's lazy sequence has still to read
LazyText == handle.buf \o Drop(disk.data, handle.pos)

\* S[i:] as Python slices it
PySliceFrom(s, i) == IF i >= 0 THEN Drop(s, i)
                     ELSE IF -i >= Len(s) THEN s ELSE Drop(s, Len(s) + i)

\* the second object of a chain is gone
SecondEnded == runs = 2 /\ chain /\ pc = "none" /\ last.had
\* the number of items the consumer had finished with before the last object
LastFinished == IF last.end = "interrupted" /\ cls = "PlayQueue" /\ last.got # <<>>
                THEN SubSeq(last.got, 1, Len(last.got) - 1) ELSE last.got
DoneBefore == Len(done) - Len(LastFinished)

\* ------------------------------------------------------------------- claims

\* C1: a safe Looper over a serializable S, left after the consumer received
\* k items (0 <= k <= n), then a second Looper on the path built with
\* cache_first (and S handed in again): the second one raises nothing and
\* yields exactly S[k:] when it is iterated to its end.
C1_ResumeYieldsSuffix ==
    (cls = "Looper" /\ SerializableSeq(S) /\ runs = 2 /\ chain /\ pc = "none"
        /\ last.end \in {"exhausted", "raised"})
    => (last.err = "" /\ last.end = "exhausted" /\ last.got = Drop(S, DoneBefore))

\* C2: a PlayQueue iterating the serializable sequence S it was handed,
\* interrupted while the consumer holds c, persists [c] followed by the items
\* of S not yet yielded; a second PlayQueue built on the path with cache_first
\* yields the items of that checkpoint in order, c first, whatever fresh
\* sequence it is handed, and when it has yielded all of them the checkpoint
\* is erased.
C2_RequeuePersistsCurrent ==
    /\ (cls = "PlayQueue" /\ SerializableSeq(S) /\ runs = 1 /\ chain /\ pc = "none"
          /\ last.end = "interrupted")
       => /\ last.err = ""
          /\ disk.exists
          /\ ValidSafe(disk.data)
          /\ ItemsOf(disk.data) = <<last.got[Len(last.got)]>> \o Drop(S, Len(last.got))
    /\ (cls = "PlayQueue" /\ SerializableSeq(S) /\ runs = 2 /\ chain /\ last.end = "interrupted")
       => /\ pc # "none" => IsPrefix(got, ItemsOf(disk.data))
          /\ pc = "yielded" => got[1] = last.got[Len(last.got)]
    /\ (cls = "PlayQueue" /\ SerializableSeq(S) /\ SecondEnded /\ last.after = "interrupted"
          /\ last.end \in {"exhausted", "raised"})
       => /\ last.err = ""
          /\ last.end = "exhausted"
          /\ last.got = ItemsOf(last.before.data)
          /\ ~disk.exists
C2_Witness ==
    /\ cls = "PlayQueue" /\ SerializableSeq(S) /\ SecondEnded /\ last.after = "interrupted"
    /\ last.end = "exhausted" /\ last.got # <<>> /\ last.fresh /\ last.got # S

\* C3 as stated: interrupted while the consumer processes the item at index k
\* (counted from 0), the next PlayQueue yields S[k-1:].
C3_ReplayFromKMinusOne ==
    (cls = "PlayQueue" /\ SerializableSeq(S) /\ SecondEnded /\ last.after = "interrupted"
        /\ last.end = "exhausted")
    => last.got = PySliceFrom(S, DoneBefore - 1)
\* C3 amended: interrupted while the consumer processes the item at index k
\* (counted from 0), the next PlayQueue built with cache_first yields S[k:],
\* the item at index k first.
C3_ReplayFromK ==
    \A k \in 0..(Len(S) - 1) :
        (cls = "PlayQueue" /\ SerializableSeq(S) /\ SecondEnded /\ last.after = "interrupted"
            /\ last.end = "exhausted" /\ DoneBefore = k)
        => last.got = [i \in 1..(Len(S) - k) |-> S[k + i]]
C3_Witness ==
    /\ cls = "PlayQueue" /\ SerializableSeq(S) /\ SecondEnded /\ last.after = "interrupted"
    /\ last.end = "exhausted" /\ DoneBefore = 1 /\ Len(S) = 2 /\ S[1] # S[2]

\* C4: along a chain of interrupted safe PlayQueue runs over a serializable
\* S, every checkpoint written holds the item in flight followed by all items
\* not yet yielded, no run raises, and when a run completes the consumer has
\* finished with exactly the items of S, in order.
C4_NoItemDropped ==
    (cls = "PlayQueue" /\ SerializableSeq(S) /\ chain /\ pc = "none"
        /\ (last.end = "interrupted" \/ last.after = "interrupted"))
    => /\ last.err = ""
       /\ last.end = "interrupted" => (ValidSafe(disk.data) /\ ItemsOf(disk.data) = Drop(S, Len(done)))
       /\ last.end = "exhausted" => done = S

\* C5: exhausting a Looper removes the checkpoint file and discards the
\* auxiliary state; a Looper then built on the path with cache_first and no
\* fresh sequence starts from an empty state.
C5_ExhaustThenEmpty ==
    /\ (pc = "none" /\ last.end = "exhausted") => ~disk.exists
    /\ ~(pc = "none" /\ last.end = "ctor" /\ last.after = "exhausted"
           /\ last.cache_first /\ ~last.fresh)
    /\ (pc = "ready" /\ last.end = "exhausted" /\ args.cache_first /\ ~args.fresh)
       => (state = EmptyDict /\ iterable = EmptyIter)

C7_FailedSaveKeepsCheckpoint ==
    (pc = "none" /\ last.end = "interrupted" /\ last.err = "TypeError"
        /\ last.before.exists /\ ValidSafe(last.before.data)
        /\ ItemLines(last.before.data) # <<>>)
    => \/ disk = last.before
       \/ ValidSafe(disk.data) /\ Len(ItemLines(disk.data)) >= 1

\* the names of AttrNames that are attributes of the store object itself
ObjectAttrs == {"erase", "pop"}
\* a store was just built on the file the last scope exit wrote
Reloaded == pc = "open" /\ assigned = EmptyDict /\ closed.saved

\* C8: when the scope of a JState with erase enabled exits without an
\* exception, no file is left at the path, whether there was one or not.
C8_EraseLeavesNoFile ==
    (pc = "none" /\ closed.value = "None" /\ closed.erase = PyBool(TRUE)) => ~disk.exists

C10_ResumeAtRecordedOffset ==
    /\ pc = "tracking" =>
           start = (IF disk.exists THEN GetPos(JsonLoadsDict(disk.data).val) ELSE 0)
    /\ (pc = "ended" /\ stop.how = "interrupted") =>
           /\ stop.err = ""
           /\ ~file.open
           /\ disk.exists /\ JsonLoadsDict(disk.data).val = ("pos" :> PyInt(stop.pos))
    /\ (pc = "tracking" /\ stop.how = "interrupted") => start = stop.pos

\* C11: when a tracker's file is iterated to its end (no error, no early
\* stop), the position checkpoint is erased: no file exists at the path
\* afterwards.
C11_CleanCompletionErases ==
    (pc = "ended" /\ mode = "for" /\ stop.how = "exhausted") => ~disk.exists

\* offset o of the rewound file is the start of a line
LineStart(text, o) == o = 0 \/ (o >= 1 /\ o <= Len(text) /\ text[o] = NL)

\* C12: for every offset p of the file, on a line boundary or inside a line,
\* rewind returns an offset o <= p that is 0 or follows a line terminator,
\* and leaves the file at o.
C12_RewindToLineStart ==
    rw.pc = "done" => /\ rw.newpos <= rw.pos
                      /\ LineStart(rw.text, rw.newpos)
                      /\ rw.at = rw.newpos

\* C13: rewind returns, whatever the text and the offset it is called at.
C13_RewindTerminates == <>(rw.pc = "done")

\* C14: the handle behind the lazy sequence of a resuming safe Looper is
\* open while the sequence is consumed, is never read after it was closed,
\* and is closed when the run has ended, however it ended (exhausted, left
\* early, an error).
C14_ReadHandleReleased ==
    /\ (pc \in {"ready", "yielded"} /\ iterable.lazy) => handle.open
    /\ last.err # "ValueError"
    /\ (cls = "Looper" /\ pc = "none" /\ last.had
          /\ last.end \in {"exhausted", "interrupted", "raised"})
       => ~handle.open

\* C15: every file a safe save has written, for any remaining sequence, the
\* empty one included, is a first line holding the auxiliary state without
\* the key remaining, then one line for each remaining item in order, and no
\* blank line: 1 + (number of remaining items) lines.
C15_SafeFileFormat ==
    (cls = "Looper" /\ runs = 1 /\ pc = "none" /\ last.end = "interrupted" /\ last.err = "")
    => LET ls == LinesOf(disk.data)
           k == Len(last.got)
       IN /\ disk.exists
          /\ Len(ls) = 1 + (Len(S) - k)
          /\ JsonLoadsDict(ls[1]).ok
          /\ JsonLoadsDict(ls[1]).val = last.aux
          /\ \A i \in 2..Len(ls) : ls[i] # <<>> /\ JsonLoads(ls[i]).val = S[k + i - 1]

\* C16: a started Looper run that ends because the consumer leaves the loop,
\* by an error raised in the loop body or by stopping early, persists the
\* checkpoint, and only a run that drains the sequence erases it: when a
\* started run has ended, a file exists at the path exactly if the run was
\* not drained.
C16_EraseOnlyWhenDrained ==
    (cls = "Looper" /\ pc = "none" /\ last.end \in {"exhausted", "interrupted", "raised"})
    => /\ disk.exists <=> last.end # "exhausted"
       /\ (last.end = "interrupted" /\ SerializableSeq(S))
          => (last.err = "" /\ JsonLoadsDict(LinesOf(disk.data)[1]).val = last.aux)
C16_Witness ==
    /\ cls = "Looper" /\ pc = "none" /\ last.after = "interrupted" /\ last.had
    /\ last.before.exists /\ last.end = "exhausted" /\ ~disk.exists /\ last.got # <<>>

\* offset o of the wrapped file is the start of a line
WrappedLineStart(o) == o = 0 \/ (o >= 1 /\ o <= Len(wrapped) /\ wrapped[o] = NL)

\* C17: whatever pos the position checkpoint holds, a pos inside a line
\* included, the offset a tracker starts to read at is the start of a line.
C17_StartsAtLineStart ==
    pc = "tracking" => WrappedLineStart(start)

\* C18: a PlayQueue that is iterated to the end of its source behaves as a
\* Looper, whatever the finite source, the empty one included: the scope exit
\* raises nothing and no checkpoint file is left.
C18_CleanCompletionAsBase ==
    (cls = "PlayQueue" /\ pc = "none" /\ last.end = "exhausted")
    => (last.err = "" /\ ~disk.exists)

\* C19: with safe=False an interrupted run writes one blob that holds the
\* auxiliary state and, under remaining, the items not yet yielded; the next
\* run built with safe=False and cache_first yields exactly those items in
\* order; it can be interrupted and resumed in turn, and no item is lost.
C19_UnsafeRoundTrip ==
    /\ (pc = "none" /\ chain /\ last.end = "interrupted")
       => /\ last.err = ""
          /\ disk.exists /\ disk.data # <<>>
          /\ PickleLoad(disk.data).state["remaining"].v = Drop(S, Len(done))
          /\ Without(PickleLoad(disk.data).state, "remaining") = last.aux
    /\ (pc = "none" /\ chain /\ last.end = "exhausted")
       => (done = S /\ ~disk.exists)
    /\ (pc = "none" /\ last.after = "interrupted") => last.end # "ctor"

\* the auxiliary state a PlayQueue built now would load from the file
LoadedAux == {Without(prep_state(disk, p).state, "remaining") :
                  p \in RefillTo(OpenHandle, disk.data)}

\* C20: for a safe PlayQueue, the auxiliary state the resuming run loads is
\* the state at the interruption without the keys remaining and current;
\* current is in the state exactly while an item is in flight and is never
\* in the header of a persisted checkpoint.
C20_AuxSurvivesCurrentDoesNot ==
    /\ (cls = "PlayQueue" /\ pc = "none" /\ last.end = "interrupted")
       => (disk.exists /\ LoadedAux = {last.aux})
    /\ (cls = "PlayQueue" /\ pc \in {"ready", "yielded"})
       => ("current" \in DOMAIN state <=> pc = "yielded")
    /\ (cls = "PlayQueue" /\ disk.exists)
       => \A st \in LoadedAux : "current" \notin DOMAIN st
C20_Witness ==
    /\ cls = "PlayQueue" /\ pc = "ready" /\ args.had /\ last.end = "interrupted"
    /\ "foo" \in DOMAIN last.aux /\ Without(state, "remaining") = last.aux
    /\ last.got # <<>>
====
